---- MODULE Spec2Model ----
(***************************************************************************)
(* A model of the agent-daemons messaging substrate: the WorldManager      *)
(* (world.py), the MessageRouter (message_router.py), the agent runtime    *)
(* and its reasoning cycle (agents.py) and the tool table (tooling.py).    *)
(*                                                                         *)
(* Identifiers (uuid.uuid4()) are modelled as strings "id-1", "id-2", ...  *)
(* drawn in allocation order; free text is modelled as strings, and the    *)
(* f-strings of the source are modelled by string concatenation.           *)
(***************************************************************************)
EXTENDS Naturals, Sequences, FiniteSets, TLC

VARIABLES
    registry,          \* WorldManager.registry: id -> entry
    msg_router_queue,  \* WorldManager.msg_router_queue / MessageRouter.global_queue
    agent_queues,      \* WorldManager.agent_queues: id -> mailbox (FIFO)
    user_queue,        \* MessageRouter.user_queue: the sink of the "user" token
    agent_processes,   \* WorldManager.agent_processes: list of ids with a Process
    proc,              \* state of each spawned Process: starting / running / dead
    conversations,     \* per agent: the conversations dictionary of _agent
    pending,           \* per agent: the handle_message task created, not yet run
    tasks,             \* per agent: the handle_message tasks awaiting the backend
    agent_log,         \* per agent: what agent_logger reported
    router_process,    \* the router Process: "alive" / "dead"
    router_task,       \* the _route_message tasks created and not finished
    router_log,        \* what router_logger.error reported
    user_log,          \* what monitor_user_queue surfaced
    uuid_count,        \* how many uuid4() values have been drawn
    mgr,               \* the manager's position inside spawn / kill / shutdown
    mgr_ret,           \* outcome of the manager's last completed operation
    sent,              \* history: every envelope put on msg_router_queue, in order
    taken,             \* history: per mailbox, the envelopes got from it, in order
    killed,            \* history: ids for which kill_agent has returned normally
    budget             \* how many operations of each kind the environment may still issue

vars == <<registry, msg_router_queue, agent_queues, user_queue, agent_processes,
          proc, conversations, pending, tasks, agent_log, router_process,
          router_task, router_log, user_log, uuid_count, mgr, mgr_ret, sent,
          taken, killed, budget>>

(***************************************************************************)
(* Bounds of the model.                                                    *)
(***************************************************************************)
MaxOps == 3          \* operations the environment issues on the manager and the router
MaxSpawn == 2        \* of which spawn_agent calls
MaxChat == 1         \* of which send_message_to_agent calls (chat envelopes)
CycleOps == 2        \* operations of the operator in the runs of SpecCycle
TalkOps == 3         \* operations of the operator in the runs of SpecTalk
MaxFailures == 1     \* backend calls that fail
MaxToolCalls == 2    \* capability requests in one backend response
MaxToolReplies == 1  \* backend responses that request capabilities

(***************************************************************************)
(* Program constants.                                                      *)
(***************************************************************************)
MAX_THINKING_TURNS == 10

SYSTEM_PROMPT == "You are a helpful AI Agent ... additional instructions: "

None == "<None>"

(***************************************************************************)
(* Identifiers.  Uuid(n) is the n-th value uuid.uuid4() returns; the user  *)
(* draws the first one in WorldManager.__init__.                           *)
(***************************************************************************)
\* uuid4() returning, from the third draw on, the value of the second
UuidReused(n) == "id-" \o ToString(IF n > 2 THEN 2 ELSE n)

Uuid(n) == "id-" \o ToString(n)

AllUuids == {Uuid(n) : n \in 1..(MaxSpawn + 2)}

\* a well-formed UUID that uuid4() never returns in this run
StrayUuid == "id-stray"

\* uuid.UUID(str(target)) succeeds
IsUuid(target) == target \in AllUuids \cup {StrayUuid}

Names == {"simon"}
Models == {"gpt-4o-mini"}
Instructions == {"echo translator"}
Texts == {"msg1", "msg2"}

(***************************************************************************)
(* Data.                                                                   *)
(***************************************************************************)
\* f with key k removed (del f[k])
Without(f, k) == [x \in DOMAIN f \ {k} |-> f[x]]

\* f with f[k] = v added or overwritten (f[k] = v on a dict)
With(f, k, v) == [x \in DOMAIN f \cup {k} |-> IF x = k THEN v ELSE f[x]]

\* s without its i-th element (del s[i])
RemoveAt(s, i) == [j \in 1..(Len(s) - 1) |-> IF j < i THEN s[j] ELSE s[j + 1]]

\* An envelope.  The source keeps free text and, for the answer to a
\* conversation_history request, the conversation list under the one key
\* "content"; the model keeps the list under "transcript".
Envelope(from, to, type, content, transcript) ==
    [from |-> from, to |-> to, type |-> type, content |-> content,
     transcript |-> transcript]

\* the identifiers drawn so far
Allocated == {Uuid(n) : n \in 1..uuid_count}

\* WorldManager.user_id
user_id == Uuid(1)

\* the ids of the entries of agent_processes
ProcessIds == {agent_processes[i] : i \in DOMAIN agent_processes}

\* process.is_alive()
IsAlive(id) == id \in DOMAIN proc /\ proc[id].state \in {"starting", "running"}

Idle == [pc |-> "idle", id |-> None, todo |-> <<>>, shutdown |-> FALSE,
         name |-> None, model |-> None, instructions |-> None]

Ret(status, value) == [status |-> status, value |-> value]

\* queue.put(message) on the router's inbound channel
Put(q, message) == Append(q, message)

\* one more operation of the environment
Spend == [budget EXCEPT !.ops = @ - 1]

(***************************************************************************)
(* WorldManager (world.py).                                                *)
(***************************************************************************)
\* The state after WorldManager.__init__, with what the environment may do.
Start(allowance) ==
    /\ registry = (Uuid(1) :> [type |-> "human", name |-> "Human", model |-> None,
                                instructions |-> None, status |-> None])
    /\ msg_router_queue = <<>>
    /\ agent_queues = (Uuid(1) :> <<>>)
    /\ user_queue = <<>>
    /\ agent_processes = <<>>
    /\ proc = <<>>
    /\ conversations = <<>>
    /\ pending = <<>>
    /\ tasks = <<>>
    /\ agent_log = <<>>
    /\ router_process = "alive"
    /\ router_task = <<>>
    /\ router_log = <<>>
    /\ user_log = <<>>
    /\ uuid_count = 1
    /\ mgr = Idle
    /\ mgr_ret = Ret("ok", None)
    /\ sent = <<>>
    /\ taken = (Uuid(1) :> <<>>)
    /\ killed = {}
    /\ budget = allowance

\* The whole system; its backend answers with text or fails.
Init == Start([ops |-> MaxOps, spawn |-> MaxSpawn, chat |-> MaxChat, tools |-> 0,
               failures |-> MaxFailures, backend |-> "any"])

\* spawn_agent, lines 65-68: draw the id, create the inbox, publish it.
SpawnAgent(name, model, instructions) ==
    /\ mgr.pc = "idle"
    /\ budget.ops > 0
    /\ budget.spawn > 0
    /\ LET id == Uuid(uuid_count + 1) IN
        /\ uuid_count' = uuid_count + 1
        /\ agent_queues' = With(agent_queues, id, <<>>)
        /\ taken' = With(taken, id, <<>>)
        /\ mgr' = [pc |-> "spawn_start", id |-> id, todo |-> <<>>, shutdown |-> FALSE,
                   name |-> name, model |-> model, instructions |-> instructions]
    /\ budget' = [budget EXCEPT !.ops = @ - 1, !.spawn = @ - 1]
    /\ UNCHANGED <<registry, msg_router_queue, user_queue, agent_processes, proc,
                   conversations, pending, tasks, agent_log, router_process,
                   router_task, router_log, user_log, mgr_ret, sent, killed>>

\* spawn_agent, lines 70-86: start the process, record it, return the id.
\* The new process has not run yet: it registers itself in AgentRegister.
SpawnStart ==
    /\ mgr.pc = "spawn_start"
    /\ proc' = With(proc, mgr.id, [state |-> "starting", name |-> mgr.name,
                                   model |-> mgr.model,
                                   instructions |-> mgr.instructions])
    /\ agent_processes' = Append(agent_processes, mgr.id)
    /\ mgr' = Idle
    /\ mgr_ret' = Ret("ok", mgr.id)
    /\ UNCHANGED <<registry, msg_router_queue, agent_queues, user_queue,
                   conversations, pending, tasks, agent_log, router_process,
                   router_task, router_log, user_log, uuid_count, sent, taken,
                   killed, budget>>

\* list_agents: (id, name) of every registry entry.
list_agents == {<<id, registry[id].name>> : id \in DOMAIN registry}

\* The manager's position after kill_agent(id) has returned normally:
\* back in shutdown's loop when shutdown called it, else idle.
AfterKill == IF mgr.shutdown THEN [Idle EXCEPT !.pc = "shutdown_loop", !.todo = mgr.todo,
                                               !.shutdown = TRUE]
             ELSE Idle

\* kill_agent that leaves the registry entry in place
KillRegistryKeep(id, todo, shutdown) ==
    IF id \in DOMAIN registry
    THEN /\ registry' = registry
         /\ mgr' = [Idle EXCEPT !.pc = "kill_process", !.id = id, !.todo = todo,
                                !.shutdown = shutdown]
         /\ UNCHANGED mgr_ret
    ELSE /\ mgr' = Idle
         /\ mgr_ret' = Ret("KeyError", id)
         /\ UNCHANGED registry

\* kill_agent, lines 126-128: del self.registry[id].  A missing key raises
\* KeyError, which leaves kill_agent (and shutdown, when it is the caller).
KillRegistry(id, todo, shutdown) ==
    IF id \in DOMAIN registry
    THEN /\ registry' = Without(registry, id)
         /\ mgr' = [Idle EXCEPT !.pc = "kill_process", !.id = id, !.todo = todo,
                                !.shutdown = shutdown]
         /\ UNCHANGED mgr_ret
    ELSE /\ mgr' = Idle
         /\ mgr_ret' = Ret("KeyError", id)
         /\ UNCHANGED registry

\* the operator's kill command (main.py, lines 165-172)
KillAgent(id) ==
    /\ mgr.pc = "idle"
    /\ budget.ops > 0
    /\ KillRegistry(id, <<>>, FALSE)
    /\ budget' = Spend
    /\ UNCHANGED <<msg_router_queue, agent_queues, user_queue, agent_processes, proc,
                   conversations, pending, tasks, agent_log, router_process,
                   router_task, router_log, user_log, uuid_count, sent, taken,
                   killed>>

\* kill_agent, lines 130-139: find the process, terminate it, drop it from
\* agent_processes.  With no such process the loop ends and kill_agent returns.
\* A terminated process loses its memory: conversations and tasks.
KillProcess ==
    /\ mgr.pc = "kill_process"
    /\ IF mgr.id \in ProcessIds
       THEN LET i == CHOOSE j \in DOMAIN agent_processes : agent_processes[j] = mgr.id
            IN  /\ proc' = [proc EXCEPT ![mgr.id].state = "dead"]
                /\ conversations' = Without(conversations, mgr.id)
                /\ pending' = Without(pending, mgr.id)
                /\ tasks' = Without(tasks, mgr.id)
                /\ agent_processes' = RemoveAt(agent_processes, i)
                /\ mgr' = [mgr EXCEPT !.pc = "kill_queue"]
                /\ UNCHANGED <<mgr_ret, killed>>
       ELSE /\ mgr' = AfterKill
            /\ mgr_ret' = Ret("ok", None)
            /\ killed' = killed \cup {mgr.id}
            /\ UNCHANGED <<proc, conversations, pending, tasks, agent_processes>>
    /\ UNCHANGED <<registry, msg_router_queue, agent_queues, user_queue, agent_log,
                   router_process, router_task, router_log, user_log, uuid_count,
                   sent, taken, budget>>

\* KillQueue with the mailbox left in agent_queues
KillQueueKeep ==
    /\ mgr.pc = "kill_queue"
    /\ mgr' = AfterKill
    /\ mgr_ret' = Ret("ok", None)
    /\ killed' = killed \cup {mgr.id}
    /\ UNCHANGED <<registry, msg_router_queue, agent_queues, user_queue,
                   agent_processes, proc, conversations, pending, tasks, agent_log,
                   router_process, router_task, router_log, user_log, uuid_count,
                   sent, taken, budget>>

\* kill_agent, lines 140-142: drop the mailbox, return.
KillQueue ==
    /\ mgr.pc = "kill_queue"
    /\ agent_queues' = IF mgr.id \in DOMAIN agent_queues
                       THEN Without(agent_queues, mgr.id) ELSE agent_queues
    /\ mgr' = AfterKill
    /\ mgr_ret' = Ret("ok", None)
    /\ killed' = killed \cup {mgr.id}
    /\ UNCHANGED <<registry, msg_router_queue, user_queue, agent_processes, proc,
                   conversations, pending, tasks, agent_log, router_process,
                   router_task, router_log, user_log, uuid_count, sent, taken, budget>>

\* shutdown, lines 148-149: snapshot the ids of agent_processes.
Shutdown ==
    /\ mgr.pc = "idle"
    /\ budget.ops > 0
    /\ mgr' = [Idle EXCEPT !.pc = "shutdown_loop", !.todo = agent_processes,
                           !.shutdown = TRUE]
    /\ budget' = Spend
    /\ UNCHANGED <<registry, msg_router_queue, agent_queues, user_queue,
                   agent_processes, proc, conversations, pending, tasks, agent_log,
                   router_process, router_task, router_log, user_log, uuid_count,
                   mgr_ret, sent, taken, killed>>

\* shutdown, lines 149-150: the next self.kill_agent(agent_id).
ShutdownKill ==
    /\ mgr.pc = "shutdown_loop"
    /\ mgr.todo # <<>>
    /\ KillRegistry(Head(mgr.todo), Tail(mgr.todo), TRUE)
    /\ UNCHANGED <<msg_router_queue, agent_queues, user_queue, agent_processes, proc,
                   conversations, pending, tasks, agent_log, router_process,
                   router_task, router_log, user_log, uuid_count, sent, taken,
                   killed, budget>>

\* shutdown, lines 152-161: stop the router process, return.
ShutdownRouter ==
    /\ mgr.pc = "shutdown_loop"
    /\ mgr.todo = <<>>
    /\ router_process' = "dead"
    /\ router_task' = <<>>
    /\ mgr' = Idle
    /\ mgr_ret' = Ret("ok", None)
    /\ UNCHANGED <<registry, msg_router_queue, agent_queues, user_queue,
                   agent_processes, proc, conversations, pending, tasks, agent_log,
                   router_log, user_log, uuid_count, sent, taken, killed, budget>>

\* The identifiers the operator can type: those drawn so far (list() shows the
\* registered ones, the user's among them) and a well-formed one never drawn.
OperatorIds == Allocated \cup {StrayUuid}

\* self.msg_router_queue.put(message) by the manager
ManagerPut(message) ==
    /\ mgr.pc = "idle"
    /\ budget.ops > 0
    /\ msg_router_queue' = Put(msg_router_queue, message)
    /\ sent' = Append(sent, message)
    /\ budget' = [budget EXCEPT !.ops = @ - 1,
                                !.chat = IF message.type = "chat" THEN @ - 1 ELSE @]
    /\ mgr_ret' = Ret("ok", None)
    /\ UNCHANGED <<registry, agent_queues, user_queue, agent_processes, proc,
                   conversations, pending, tasks, agent_log, router_process,
                   router_task, router_log, user_log, uuid_count, mgr, taken, killed>>

\* ping_agent
PingAgent(id) == ManagerPut(Envelope(user_id, id, "ping", None, <<>>))

\* request_conversation_history
RequestConversationHistory(id) ==
    ManagerPut(Envelope(user_id, id, "conversation_history", None, <<>>))

\* send_message_to_agent
SendMessageToAgent(id, message) ==
    /\ budget.chat > 0
    /\ ManagerPut(Envelope(user_id, id, "chat", message, <<>>))

\* monitor_user_queue, lines 113-117: surface one message of the user's mailbox.
MonitorUserQueue ==
    /\ mgr.pc = "idle"
    /\ user_id \in DOMAIN agent_queues
    /\ agent_queues[user_id] # <<>>
    /\ LET message == Head(agent_queues[user_id]) IN
        /\ agent_queues' = [agent_queues EXCEPT ![user_id] = Tail(@)]
        /\ taken' = [taken EXCEPT ![user_id] = Append(@, message)]
        /\ user_log' = Append(user_log, message)
    /\ UNCHANGED <<registry, msg_router_queue, user_queue, agent_processes, proc,
                   conversations, pending, tasks, agent_log, router_process,
                   router_task, router_log, uuid_count, mgr, mgr_ret, sent, killed,
                   budget>>

(***************************************************************************)
(* MessageRouter (message_router.py).                                      *)
(***************************************************************************)
NotAUuid == "not-a-uuid"

\* `if target:` is false for a missing or empty destination
Falsy(target) == target \in {None, ""}

RouterError(error, target) == [error |-> error, target |-> target]

\* queue_message: any producer submits an envelope to the inbound channel.
QueueMessage(message) ==
    /\ budget.ops > 0
    /\ msg_router_queue' = Put(msg_router_queue, message)
    /\ sent' = Append(sent, message)
    /\ budget' = Spend
    /\ UNCHANGED <<registry, agent_queues, user_queue, agent_processes, proc,
                   conversations, pending, tasks, agent_log, router_process,
                   router_task, router_log, user_log, uuid_count, mgr, mgr_ret,
                   taken, killed>>

\* The envelope run() takes from the inbound channel (global_queue.get()).
NextMessage(queue) == Head(queue)

\* run, lines 61-65: take one envelope and create its _route_message task.  The
\* task created by the previous round has run during the sleep that follows it.
RouterRun ==
    /\ router_process = "alive"
    /\ router_task = <<>>
    /\ msg_router_queue # <<>>
    /\ router_task' = <<[message |-> NextMessage(msg_router_queue), pc |-> "route"]>>
    /\ msg_router_queue' = Tail(msg_router_queue)
    /\ UNCHANGED <<registry, agent_queues, user_queue, agent_processes, proc,
                   conversations, pending, tasks, agent_log, router_process,
                   router_log, user_log, uuid_count, mgr, mgr_ret, sent, taken,
                   killed, budget>>

\* Deliver with the envelope put at the front of the mailbox
DeliverFront(mailbox, message) == <<message>> \o mailbox

\* queue.put(message) on a mailbox
Deliver(mailbox, message) == Append(mailbox, message)

\* Resolve with an unknown identifier falling back to the user sink
ResolveFallback(target) ==
    IF Falsy(target) THEN "no target"
    ELSE IF target = "user" THEN "user"
    ELSE IF ~IsUuid(target) THEN "not a valid UUID"
    ELSE IF target \in DOMAIN agent_queues THEN "agent"
    ELSE "user"

\* _route_message, lines 34-58: how the destination resolves.
Resolve(target) ==
    IF Falsy(target) THEN "no target"
    ELSE IF target = "user" THEN "user"
    ELSE IF ~IsUuid(target) THEN "not a valid UUID"
    ELSE IF target \in DOMAIN agent_queues THEN "agent"
    ELSE "not found"

\* _route_message, lines 34-50 and 53-58: the user token goes to user_queue, a
\* destination found in agent_queues goes on to the put of line 51, and
\* everything else is reported and dropped.
RouteMessage ==
    /\ router_process = "alive"
    /\ router_task # <<>>
    /\ router_task[1].pc = "route"
    /\ LET message == router_task[1].message
           target == message.to
           how == Resolve(target)
       IN  IF how = "user"
           THEN /\ user_queue' = Deliver(user_queue, message)
                /\ router_task' = <<>>
                /\ UNCHANGED router_log
           ELSE IF how = "agent"
           THEN /\ router_task' = <<[router_task[1] EXCEPT !.pc = "put"]>>
                /\ UNCHANGED <<router_log, user_queue>>
           ELSE /\ router_log' = Append(router_log, RouterError(how, target))
                /\ router_task' = <<>>
                /\ UNCHANGED user_queue
    /\ UNCHANGED <<registry, msg_router_queue, agent_queues, agent_processes, proc,
                   conversations, pending, tasks, agent_log, router_process,
                   user_log, uuid_count, mgr, mgr_ret, sent, taken, killed, budget>>

\* _route_message, line 51: self.agent_queues[target_uuid].put(message).  The
\* lookup is a second call on the shared dictionary: when kill_agent has
\* removed the mailbox since line 50 it raises KeyError, which ends the task.
RoutePut ==
    /\ router_process = "alive"
    /\ router_task # <<>>
    /\ router_task[1].pc = "put"
    /\ LET message == router_task[1].message
           target == message.to
       IN  agent_queues' = IF target \in DOMAIN agent_queues
                           THEN [agent_queues EXCEPT ![target] = Deliver(@, message)]
                           ELSE agent_queues
    /\ router_task' = <<>>
    /\ UNCHANGED <<registry, msg_router_queue, user_queue, agent_processes, proc,
                   conversations, pending, tasks, agent_log, router_process,
                   router_log, user_log, uuid_count, mgr, mgr_ret, sent, taken,
                   killed, budget>>

(***************************************************************************)
(* Tool table (tooling.py).                                                *)
(***************************************************************************)
\* the names of tooling.tools, the capabilities declared to the backend
tools == {"get_current_weather", "get_all_agents", "send_message_to_user",
          "send_message_to_agent"}

\* tooling.available_functions: name -> function
available_functions ==
    [name \in {"get_current_weather", "get_all_agents", "send_message_to_user",
               "send_message_to_agent"} |-> name]

\* json.dumps of the weather record
get_current_weather(location, unit) ==
    "{location: " \o location \o ", temperature: 72, unit: " \o unit
        \o ", forecast: [sunny, windy]}"

\* str(registry)
get_all_agents(reg) == ToString(reg)

\* the envelope send_message_to_user puts on the router queue
send_message_to_user(from_id, content) == Envelope(from_id, "user", "chat", content, <<>>)

\* the envelope send_message_to_agent puts on the router queue
send_message_to_agent(from_id, to_id, content) ==
    Envelope(from_id, to_id, "chat", content, <<>>)

(***************************************************************************)
(* Agent runtime (agents.py).                                              *)
(***************************************************************************)
\* A turn of a conversation (a ChatCompletionMessageParam).
Turn(role, content, name, tool_call_id, tool_calls) ==
    [role |-> role, content |-> content, name |-> name,
     tool_call_id |-> tool_call_id, tool_calls |-> tool_calls]

\* the system message that opens every conversation of agent a
SystemTurn(a) ==
    Turn("system", SYSTEM_PROMPT \o "\n\n" \o proc[a].instructions, None, None, <<>>)

\* f"You have recieved a message from entity: {conversation_id}. The message is {content}"
ContentTemplate(conversation_id, content) ==
    "You have recieved a message from entity: " \o conversation_id
        \o ". The message is " \o content

\* get_conversation: the dictionary afterwards (the list is its entry for id)
get_conversation(convs, a, id) ==
    IF id \in DOMAIN convs THEN convs ELSE With(convs, id, <<SystemTurn(a)>>)

\* update_conversation keeping only the system turn and the new turn
UpdateConversationLatest(convs, a, id, message) ==
    LET c == get_conversation(convs, a, id)
    IN  [c EXCEPT ![id] = <<Head(@), message>>]

\* update_conversation putting the new turn first, right after the system turn
UpdateConversationFront(convs, a, id, message) ==
    LET c == get_conversation(convs, a, id)
    IN  [c EXCEPT ![id] = <<Head(@), message>> \o Tail(@)]

\* update_conversation appending the new turn to every conversation of the agent
UpdateConversationAll(convs, a, id, message) ==
    LET c == get_conversation(convs, a, id)
    IN  [x \in DOMAIN c |-> Append(c[x], message)]

\* update_conversation: the dictionary afterwards
update_conversation(convs, a, id, message) ==
    LET c == get_conversation(convs, a, id) IN [c EXCEPT ![id] = Append(@, message)]

\* function_response or "None"
OrNone(function_response) ==
    IF function_response \in {None, ""} THEN "None" ELSE function_response

\* A frame of invoke_llm: its arguments and locals, and where it waits:
\* "llm_tools" in the completion of lines 113-119, "llm_plain" in the one of
\* lines 180-182, "call" in a recursive invoke_llm.
Frame(thinking_turn, content) ==
    [thinking_turn |-> thinking_turn, content |-> content, pc |-> "llm_tools",
     task_wip |-> TRUE, tool_called |-> FALSE, function_response |-> None,
     tool_calls |-> <<>>, tool_call |-> None]

Top(st) == st.stk[Len(st.stk)]

Pop(st) == [st EXCEPT !.stk = SubSeq(@, 1, Len(@) - 1)]

SetTop(st, frame) == [st EXCEPT !.stk[Len(st.stk)] = frame]

Conv(st, a, id, message) == [st EXCEPT !.convs = update_conversation(@, a, id, message)]

Log(st, entry) == [st EXCEPT !.log = Append(@, entry)]

\* an except clause that also resets every conversation to its system turn
ExceptReset(st) ==
    Pop(Log([st EXCEPT !.convs = [id \in DOMAIN @ |-> <<@[id][1]>>]], "Error"))

\* lines 208-210: the except clause logs and returns from this frame
Except(st) == Pop(Log(st, "Error"))

RECURSIVE invoke_llm(_, _, _, _, _)

RECURSIVE ToolLoop(_, _, _)

RECURSIVE Return(_, _, _)

\* invoke_llm giving up one turn late
InvokeLlmLate(st, a, thinking_turn, conversation_id, content) ==
    IF thinking_turn > MAX_THINKING_TURNS + 1
    THEN Return(Log(st, "Giving up"), a, conversation_id)
    ELSE LET st1 == IF content # ""
                    THEN Conv(st, a, conversation_id,
                              Turn("user", ContentTemplate(conversation_id, content),
                                   None, None, <<>>))
                    ELSE st
         IN  [st1 EXCEPT !.stk = Append(@, Frame(thinking_turn, content))]

\* invoke_llm from its entry to its first completion call (lines 97-119).
\* st holds the task's stack, the agent's conversations, and the log lines and
\* envelopes produced in this run.
invoke_llm(st, a, thinking_turn, conversation_id, content) ==
    IF thinking_turn > MAX_THINKING_TURNS
    THEN Return(Log(st, "Giving up"), a, conversation_id)
    ELSE LET st1 == IF content # ""
                    THEN Conv(st, a, conversation_id,
                              Turn("user", ContentTemplate(conversation_id, content),
                                   None, None, <<>>))
                    ELSE st
         IN  [st1 EXCEPT !.stk = Append(@, Frame(thinking_turn, content))]

\* A frame has returned: the task is over, or the caller, which awaited it in
\* line 190, 196 or 206, goes on with its for loop.
Return(st, a, conversation_id) ==
    IF st.stk = <<>> THEN st ELSE ToolLoop(st, a, conversation_id)

\* The for loop over tool_calls (lines 137-196), from the next tool call to the
\* next completion call or to the end of the frame.
ToolLoop(st, a, conversation_id) ==
    LET f == Top(st) IN
    IF f.tool_calls = <<>>
    THEN Return(Pop(st), a, conversation_id)
    ELSE
    LET tool_call == Head(f.tool_calls)
        function_name == tool_call.name
        function_args == tool_call.arguments
    IN
    IF function_name \notin DOMAIN available_functions \/ ~function_args.json_ok
    THEN \* KeyError of line 142, or json.loads failing in line 143
         Return(Except(st), a, conversation_id)
    ELSE
    LET matched == function_name \in {"get_current_weather", "get_entities",
                                      "send_message"}
        function_response ==
            IF function_name = "get_current_weather"
            THEN get_current_weather(function_args.location,
                                     IF function_args.unit = None THEN "fahrenheit"
                                     ELSE function_args.unit)
            ELSE IF function_name = "get_entities" THEN get_all_agents(registry)
            ELSE IF function_name = "send_message" THEN None
            ELSE f.function_response
        tool_called == f.tool_called \/ matched
        task_wip == f.task_wip /\ function_name # "send_message"
        st1 == IF function_name = "send_message"
               THEN [st EXCEPT !.out = Append(@, send_message_to_agent(
                                   a, function_args.id, function_args.content))]
               ELSE st
        f1 == [f EXCEPT !.tool_calls = Tail(@), !.tool_call = tool_call.id,
                        !.tool_called = tool_called, !.task_wip = task_wip,
                        !.function_response = function_response]
    IN
    IF tool_called
    THEN Conv(SetTop(st1, [f1 EXCEPT !.pc = "llm_plain"]), a, conversation_id,
              Turn("tool", OrNone(function_response), function_name, tool_call.id, <<>>))
    ELSE invoke_llm(
             Conv(SetTop(Log(st1, "No tool available: " \o function_name),
                         [f1 EXCEPT !.pc = "call"]),
                  a, conversation_id,
                  Turn("assistant",
                       "I tried to call a tool called " \o function_name
                           \o ", but it was not available", None, None, <<>>)),
             a, f.thinking_turn + 1, conversation_id, "")

\* invoke_llm that returns after a reply without capability requests
ResumeSuspend(st, a, conversation_id, response) ==
    LET f == Top(st) IN
    IF response.kind = "fail" THEN Return(Except(st), a, conversation_id)
    ELSE IF f.pc = "llm_tools"
    THEN IF response.tool_calls # <<>>
         THEN ToolLoop(
                  Conv(Conv(SetTop(st, [f EXCEPT !.tool_calls = response.tool_calls,
                                                 !.tool_called = FALSE]),
                            a, conversation_id,
                            Turn("user", f.content, None, None, <<>>)),
                       a, conversation_id,
                       Turn("assistant", response.content, None, None,
                            response.tool_calls)),
                  a, conversation_id)
         ELSE Return(Pop(Conv(st, a, conversation_id,
                              Turn("assistant", response.content, None, None, <<>>))),
                     a, conversation_id)
    ELSE LET st1 == Conv(SetTop(st, [f EXCEPT !.pc = "call"]), a, conversation_id,
                         Turn("assistant", response.content, None, None, <<>>))
         IN  IF f.task_wip
             THEN invoke_llm(st1, a, f.thinking_turn + 1, conversation_id, "")
             ELSE ToolLoop(st1, a, conversation_id)

\* invoke_llm resumed by the backend's answer to the completion it waits in.
Resume(st, a, conversation_id, response) ==
    LET f == Top(st) IN
    IF response.kind = "fail" THEN Return(Except(st), a, conversation_id)
    ELSE IF f.pc = "llm_tools"
    THEN IF response.tool_calls # <<>>
         THEN \* lines 126-137
              ToolLoop(
                  Conv(Conv(SetTop(st, [f EXCEPT !.tool_calls = response.tool_calls,
                                                 !.tool_called = FALSE]),
                            a, conversation_id,
                            Turn("user", f.content, None, None, <<>>)),
                       a, conversation_id,
                       Turn("assistant", response.content, None, None,
                            response.tool_calls)),
                  a, conversation_id)
         ELSE IF f.task_wip
         THEN \* lines 198-206
              invoke_llm(
                  Conv(SetTop(st, [f EXCEPT !.pc = "call"]), a, conversation_id,
                       Turn("assistant", response.content, None, None, <<>>)),
                  a, f.thinking_turn + 1, conversation_id, "")
         ELSE Return(Pop(st), a, conversation_id)
    ELSE \* lines 183-190
         LET st1 == Conv(SetTop(st, [f EXCEPT !.pc = "call"]), a, conversation_id,
                         Turn("assistant", response.content, None, None, <<>>))
         IN  IF f.task_wip
             THEN invoke_llm(st1, a, f.thinking_turn + 1, conversation_id, "")
             ELSE ToolLoop(st1, a, conversation_id)

\* _agent, lines 63-73: the new process registers itself and starts with no
\* conversations and no tasks.
AgentRegister(a) ==
    /\ a \in DOMAIN proc
    /\ proc[a].state = "starting"
    /\ registry' = With(registry, a, [type |-> "agent", model |-> proc[a].model,
                                      name |-> proc[a].name,
                                      instructions |-> proc[a].instructions,
                                      status |-> "ready"])
    /\ proc' = [proc EXCEPT ![a].state = "running"]
    /\ conversations' = With(conversations, a, <<>>)
    /\ pending' = With(pending, a, <<>>)
    /\ tasks' = With(tasks, a, <<>>)
    /\ agent_log' = With(agent_log, a, <<>>)
    /\ UNCHANGED <<msg_router_queue, agent_queues, user_queue, agent_processes,
                   router_process, router_task, router_log, user_log, uuid_count,
                   mgr, mgr_ret, sent, taken, killed, budget>>

\* _agent, lines 245-248: take one envelope from the inbox and create its
\* handle_message task.  The task created by the previous round has started
\* during the sleep that follows it.
AgentGet(a) ==
    /\ a \in DOMAIN proc
    /\ proc[a].state = "running"
    /\ pending[a] = <<>>
    /\ a \in DOMAIN agent_queues
    /\ agent_queues[a] # <<>>
    /\ pending' = [pending EXCEPT ![a] = <<Head(agent_queues[a])>>]
    /\ agent_queues' = [agent_queues EXCEPT ![a] = Tail(@)]
    /\ taken' = [taken EXCEPT ![a] = Append(@, Head(agent_queues[a]))]
    /\ UNCHANGED <<registry, msg_router_queue, user_queue, agent_processes, proc,
                   conversations, tasks, agent_log, router_process, router_task,
                   router_log, user_log, uuid_count, mgr, mgr_ret, sent, killed,
                   budget>>

\* datetime.now() formatted; the clock is outside the model
Timestamps == {"2025-01-01 00:00:00"}

\* an acknowledgement addressed to the user sink instead of to the envelope's sender
AckToUser(a, message, now) == Envelope(a, "user", "ack", "Ack at " \o now, <<>>)

\* lines 217-222
Ack(a, message, now) == Envelope(a, message["from"], "ack", "Ack at " \o now, <<>>)

\* a history answer that leaves the system turn out
HistoryResponseNoDirective(a, message, convs) ==
    Envelope(a, message["from"], "chat", None,
             Tail(get_conversation(convs, a, message["from"])[message["from"]]))

\* lines 231-236
HistoryResponse(a, message, convs) ==
    Envelope(a, message["from"], "chat", None,
             get_conversation(convs, a, message["from"])[message["from"]])

\* the state of a run of agent a's code: the stack of the task that runs, the
\* agent's conversations, and the log lines and envelopes the run has produced
Run(a, stk) == [stk |-> stk, convs |-> conversations[a], log |-> <<>>, out |-> <<>>]

\* handle_message, lines 212-242, up to its first wait: a ping is answered with
\* an ack, a conversation_history request with the conversation, and a chat
\* enters invoke_llm at turn 1, where the task waits for the backend.
HandleMessage(a) ==
    /\ a \in DOMAIN proc
    /\ proc[a].state = "running"
    /\ pending[a] # <<>>
    /\ LET message == pending[a][1] IN
        /\ pending' = [pending EXCEPT ![a] = <<>>]
        /\ IF message.type = "ping"
           THEN /\ \E now \in Timestamps :
                    /\ msg_router_queue' = Put(msg_router_queue, Ack(a, message, now))
                    /\ sent' = Append(sent, Ack(a, message, now))
                /\ UNCHANGED <<conversations, tasks, agent_log>>
           ELSE IF message.type = "conversation_history"
           THEN /\ conversations' =
                    [conversations EXCEPT ![a] = get_conversation(@, a, message["from"])]
                /\ msg_router_queue' =
                    Put(msg_router_queue, HistoryResponse(a, message, conversations[a]))
                /\ sent' = Append(sent, HistoryResponse(a, message, conversations[a]))
                /\ UNCHANGED <<tasks, agent_log>>
           ELSE IF message.type = "chat"
           THEN LET st == invoke_llm(Run(a, <<>>), a, 1, message["from"], message.content)
                IN  /\ conversations' = [conversations EXCEPT ![a] = st.convs]
                    /\ tasks' = [tasks EXCEPT ![a] =
                                    IF st.stk = <<>> THEN @
                                    ELSE Append(@, [conversation_id |-> message["from"],
                                                    stk |-> st.stk])]
                    /\ agent_log' = [agent_log EXCEPT ![a] = @ \o st.log]
                    /\ msg_router_queue' = msg_router_queue \o st.out
                    /\ sent' = sent \o st.out
           ELSE UNCHANGED <<conversations, tasks, agent_log, msg_router_queue, sent>>
    /\ UNCHANGED <<registry, agent_queues, user_queue, agent_processes, proc,
                   router_process, router_task, router_log, user_log, uuid_count,
                   mgr, mgr_ret, taken, killed, budget>>

(***************************************************************************)
(* The reasoning backend: what a completion call can return.               *)
(***************************************************************************)
Args(location, unit, id, content, json_ok) ==
    [location |-> location, unit |-> unit, id |-> id, content |-> content,
     json_ok |-> json_ok]

\* The capability requests the backend may make: the declared tools, the two
\* names the system prompt advertises, and arguments that are not JSON.
ToolCallChoices ==
    { [name |-> "get_current_weather", arguments |-> Args("Paris", None, None, None, TRUE)],
      [name |-> "get_current_weather", arguments |-> Args(None, None, None, None, FALSE)],
      [name |-> "get_all_agents", arguments |-> Args(None, None, None, None, TRUE)],
      [name |-> "send_message_to_user", arguments |-> Args(None, None, None, "done", TRUE)],
      [name |-> "send_message_to_agent", arguments |-> Args(None, None, user_id, "done", TRUE)],
      [name |-> "get_entities", arguments |-> Args(None, None, None, None, TRUE)],
      [name |-> "send_message", arguments |-> Args(None, None, user_id, "done", TRUE)] }

ToolCallLists ==
    UNION { { [i \in 1..n |-> [id |-> "call-" \o ToString(i), name |-> choice[i].name,
                               arguments |-> choice[i].arguments]]
              : choice \in [1..n -> ToolCallChoices] }
            : n \in 1..MaxToolCalls }

Response(kind, content, tool_calls) ==
    [kind |-> kind, content |-> content, tool_calls |-> tool_calls]

\* one request of a capability that does not end the task: one the dispatch
\* of lines 145-164 runs, or a declared one it does not know
InsistentLists ==
    { <<[id |-> "call-1", name |-> choice.name, arguments |-> choice.arguments]>> :
        choice \in { c \in ToolCallChoices :
                        /\ c.name \in {"get_current_weather", "get_all_agents"}
                        /\ c.arguments.json_ok } }

\* What the backend may answer to the completion call frame f waits in, within
\* the allowance left.  The second call of a turn (lines 180-182) declares no
\* tools.  The insistent backend requests a capability whenever tools are
\* declared to it.  The failing backend answers the first call of a cycle with
\* text or an error, and every later call with an error.
Responses(f) ==
    IF budget.backend = "insistent"
    THEN IF f.pc = "llm_tools"
         THEN {Response("message", None, calls) : calls \in InsistentLists}
         ELSE {Response("message", "reply" \o ToString(f.thinking_turn), <<>>)}
    ELSE IF budget.backend = "failing"
    THEN {Response("fail", None, <<>>)}
         \cup (IF f.thinking_turn = 1
               THEN {Response("message", "reply" \o ToString(f.thinking_turn), <<>>)}
               ELSE {})
    ELSE (IF budget.failures > 0 THEN {Response("fail", None, <<>>)} ELSE {})
         \cup {Response("message", "reply" \o ToString(f.thinking_turn), <<>>)}
         \cup (IF f.pc = "llm_tools" /\ budget.tools > 0
               THEN {Response("message", None, calls) : calls \in ToolCallLists}
               ELSE {})

\* A completion call of task i of agent a returns (or raises), and the task
\* runs on to its next completion call or to its end.
BackendRespond(a, i, response) ==
    /\ a \in DOMAIN proc
    /\ proc[a].state = "running"
    /\ i \in DOMAIN tasks[a]
    /\ response \in Responses(Top(tasks[a][i]))
    /\ budget' = [budget EXCEPT
                    !.failures = IF response.kind = "fail" /\ @ > 0 THEN @ - 1 ELSE @,
                    !.tools = IF response.tool_calls # <<>> /\ @ > 0 THEN @ - 1 ELSE @]
    /\ LET st == Resume(Run(a, tasks[a][i].stk), a, tasks[a][i].conversation_id, response)
       IN  /\ conversations' = [conversations EXCEPT ![a] = st.convs]
           /\ tasks' = [tasks EXCEPT ![a] =
                           IF st.stk = <<>> THEN RemoveAt(@, i)
                           ELSE [@ EXCEPT ![i].stk = st.stk]]
           /\ agent_log' = [agent_log EXCEPT ![a] = @ \o st.log]
           /\ msg_router_queue' = msg_router_queue \o st.out
           /\ sent' = sent \o st.out
    /\ UNCHANGED <<registry, agent_queues, user_queue, agent_processes, proc, pending,
                   router_process, router_task, router_log, user_log, uuid_count,
                   mgr, mgr_ret, taken, killed>>

(***************************************************************************)
(* The system.                                                             *)
(***************************************************************************)
\* the envelopes a producer may submit through queue_message
QueuedEnvelopes ==
    { Envelope(from, to, "chat", text, <<>>) :
        from \in DOMAIN registry,
        to \in (DOMAIN agent_queues) \cup {"user", NotAUuid, ""},
        text \in {"msg3"} }

\* The manager, the router and the agents' intake of envelopes.  The backend is
\* not part of it: a completion call stays pending (the tasks of chat envelopes
\* wait in their first call).
Next ==
    \/ \E name \in Names, model \in Models, instructions \in Instructions :
            SpawnAgent(name, model, instructions)
    \/ SpawnStart
    \/ \E id \in OperatorIds : KillAgent(id)
    \/ KillProcess
    \/ KillQueue
    \/ Shutdown
    \/ ShutdownKill
    \/ ShutdownRouter
    \/ \E id \in OperatorIds : PingAgent(id)
    \/ \E id \in OperatorIds : RequestConversationHistory(id)
    \/ \E id \in OperatorIds, message \in Texts : SendMessageToAgent(id, message)
    \/ MonitorUserQueue
    \/ \E message \in QueuedEnvelopes : QueueMessage(message)
    \/ RouterRun
    \/ RouteMessage
    \/ RoutePut
    \/ \E a \in DOMAIN proc : AgentRegister(a)
    \/ \E a \in DOMAIN proc : AgentGet(a)
    \/ \E a \in DOMAIN proc : HandleMessage(a)

Spec == Init /\ [][Next]_vars

\* One agent and its reasoning cycle: the operator spawns agents and sends
\* them envelopes, and the backend answers every completion call with text,
\* with capability requests or with a failure; or it is the backend that
\* requests a capability whenever it is offered one.
InitCycle ==
    \/ Start([ops |-> CycleOps, spawn |-> 1, chat |-> MaxChat,
              tools |-> MaxToolReplies, failures |-> MaxFailures, backend |-> "any"])
    \/ Start([ops |-> CycleOps, spawn |-> 1, chat |-> MaxChat,
              tools |-> 0, failures |-> 0, backend |-> "insistent"])

NextCycle ==
    \/ \E name \in Names, model \in Models, instructions \in Instructions :
            SpawnAgent(name, model, instructions)
    \/ SpawnStart
    \/ \E id \in OperatorIds : PingAgent(id)
    \/ \E id \in OperatorIds : RequestConversationHistory(id)
    \/ \E id \in OperatorIds, message \in Texts : SendMessageToAgent(id, message)
    \/ MonitorUserQueue
    \/ RouterRun
    \/ RouteMessage
    \/ RoutePut
    \/ \E a \in DOMAIN proc : AgentRegister(a)
    \/ \E a \in DOMAIN proc : AgentGet(a)
    \/ \E a \in DOMAIN proc : HandleMessage(a)
    \/ \E a \in DOMAIN tasks : \E i \in DOMAIN tasks[a] :
            \E response \in Responses(Top(tasks[a][i])) : BackendRespond(a, i, response)

SpecCycle == InitCycle /\ [][NextCycle]_vars

\* The same system with a backend that requests no capability: one agent and
\* one chat envelope, and room for more envelopes of the operator beside it
\* (pings, history requests).
InitTalk == Start([ops |-> TalkOps, spawn |-> 1, chat |-> 1, tools |-> 0,
                   failures |-> MaxFailures, backend |-> "any"])

SpecTalk == InitTalk /\ [][NextCycle]_vars

\* One agent whose backend is failing, with the operator and peers that submit
\* chat envelopes through queue_message.
InitFail == Start([ops |-> TalkOps, spawn |-> 1, chat |-> MaxChat, tools |-> 0,
                   failures |-> 0, backend |-> "failing"])

NextFail ==
    \/ NextCycle
    \/ \E message \in QueuedEnvelopes : QueueMessage(message)

SpecFail == InitFail /\ [][NextFail]_vars

(***************************************************************************)
(* Properties.                                                             *)
(***************************************************************************)
IsPrefix(s, t) == Len(s) <= Len(t) /\ SubSeq(t, 1, Len(s)) = s

\* the envelopes of seq that a sent
From(seq, a) == SelectSeq(seq, LAMBDA m : m.from = a)

\* the envelopes of seq that a addressed to b
FromTo(seq, a, b) == SelectSeq(seq, LAMBDA m : m.from = a /\ m.to = b)

\* everything that was ever put into mailbox b, in order
Delivered(b) == taken[b] \o agent_queues[b]

\* the router is running and has routed everything submitted so far
RouterQuiet == router_process = "alive" /\ msg_router_queue = <<>> /\ router_task = <<>>

Senders == {sent[i].from : i \in DOMAIN sent}

\* C1: for every mailbox b of the mailbox set and every sender a, what b's
\* mailbox has received from a is, in order and without duplicates, an initial
\* part of the envelopes a submitted to the inbound channel for b (and nothing
\* addressed elsewhere is in b's mailbox); once the running router has routed
\* everything submitted, it is all of them: each appears exactly once, in
\* submission order.
C1_FifoPerDestination ==
    \A b \in DOMAIN agent_queues :
        /\ \A i \in DOMAIN Delivered(b) : Delivered(b)[i].to = b
        /\ \A a \in Senders :
            /\ IsPrefix(From(Delivered(b), a), FromTo(sent, a, b))
            /\ RouterQuiet => From(Delivered(b), a) = FromTo(sent, a, b)

\* C1 witness: an agent's mailbox has received two different envelopes of the
\* same sender, and the router has routed everything.
C1_Witness ==
    /\ RouterQuiet
    /\ \E b \in DOMAIN agent_queues \ {user_id} :
        /\ Len(Delivered(b)) >= 2
        /\ Delivered(b)[1].from = Delivered(b)[2].from
        /\ Delivered(b)[1] # Delivered(b)[2]

\* the step in which the router resolves the destination of the envelope it holds
RouterResolves ==
    /\ router_task # <<>>
    /\ router_task[1].pc = "route"
    /\ router_task' # router_task
    /\ router_process' = "alive"

\* C2: when the router resolves an envelope whose destination is neither the
\* user token nor an identifier with a mailbox, it reports an error naming the
\* destination and drops the envelope: no mailbox and not the user sink
\* changes, and the envelope is neither kept nor put back on the channel.
C2_UnresolvedDropped ==
    [][ (/\ RouterResolves
         /\ router_task[1].message.to # "user"
         /\ router_task[1].message.to \notin DOMAIN agent_queues)
        => /\ Len(router_log') = Len(router_log) + 1
           /\ router_log'[Len(router_log')].target = router_task[1].message.to
           /\ SubSeq(router_log', 1, Len(router_log)) = router_log
           /\ agent_queues' = agent_queues
           /\ user_queue' = user_queue
           /\ router_task' = <<>>
           /\ msg_router_queue' = msg_router_queue ]_vars

\* C2 witness: the router has reported an identifier that has no mailbox while
\* a mailbox holds an envelope.
C2_Witness ==
    /\ \E i \in DOMAIN router_log :
        router_log[i].error = "not found" /\ router_log[i].target = StrayUuid
    /\ \E b \in DOMAIN agent_queues : agent_queues[b] # <<>>

\* C7: once kill(id) has returned normally, id has no registry entry and (for
\* an agent) no mailbox; and when the router then resolves an envelope
\* addressed to id it reports it as not found, and neither that step nor a
\* pending put for id changes any mailbox or the user sink.
C7_KilledGone ==
    \A id \in killed :
        /\ id \notin DOMAIN registry
        /\ id # user_id => id \notin DOMAIN agent_queues

C7_KilledUnresolved ==
    /\ []C7_KilledGone
    /\ [][ (/\ router_task # <<>>
            /\ router_task' # router_task
            /\ router_process' = "alive"
            /\ router_task[1].message.to \in killed \ {user_id})
           => /\ agent_queues' = agent_queues
              /\ user_queue' = user_queue
              /\ router_task' = <<>>
              /\ router_task[1].pc = "route" =>
                    router_log' = Append(router_log, RouterError("not found",
                                             router_task[1].message.to)) ]_vars

\* C7 witness: an envelope addressed to a killed agent has been reported.
C7_Witness ==
    \E i \in DOMAIN router_log :
        router_log[i].error = "not found" /\ router_log[i].target \in killed

\* C8 (as claimed): kill_agent(id) for an agent whose kill has already
\* completed returns normally.
C8_SecondKillReturns ==
    ~(mgr_ret.status = "KeyError" /\ mgr_ret.value \in killed \ {user_id})

\* C9 (as claimed): when spawn_agent has returned an identifier (and the
\* operator has issued nothing since), the identifier has a mailbox and a
\* registry entry with status ready.
C9_SpawnRegisters ==
    (mgr.pc = "idle" /\ mgr_ret.status = "ok" /\ mgr_ret.value \in ProcessIds)
        => /\ mgr_ret.value \in DOMAIN agent_queues
           /\ mgr_ret.value \in DOMAIN registry
           /\ registry[mgr_ret.value].status = "ready"

\* the envelopes of seq of the given type
OfType(seq, type) == SelectSeq(seq, LAMBDA m : m.type = type)

\* the pings agent a has taken from its mailbox and handled
PingsHandled(a) ==
    LET pings == OfType(taken[a], "ping")
    IN  IF a \in DOMAIN pending /\ pending[a] # <<>> /\ pending[a][1].type = "ping"
        THEN SubSeq(pings, 1, Len(pings) - 1)
        ELSE pings

\* the acks agent a has put on the router's inbound channel
AcksSent(a) == OfType(From(sent, a), "ack")

\* every ping a running agent has handled has exactly one ack, in order, from
\* the agent to the ping's sender
C3_OneAckPerPing ==
    \A a \in DOMAIN pending :
        /\ Len(AcksSent(a)) = Len(PingsHandled(a))
        /\ \A k \in DOMAIN AcksSent(a) : AcksSent(a)[k].to = PingsHandled(a)[k].from

\* C3: for every ping envelope a running agent receives, the agent puts exactly
\* one ack envelope on the router's inbound channel, with from = the agent and
\* to = the ping's from; the step that handles the ping puts that ack and
\* nothing else on the channel and leaves the agent's conversations as they
\* were (none is created, none grows).
C3_PingAcked ==
    /\ []C3_OneAckPerPing
    /\ [][ \A a \in DOMAIN pending :
            (/\ pending[a] # <<>>
             /\ pending[a][1].type = "ping"
             /\ a \in DOMAIN pending'
             /\ pending'[a] = <<>>)
            => /\ Len(msg_router_queue') = Len(msg_router_queue) + 1
               /\ SubSeq(msg_router_queue', 1, Len(msg_router_queue)) = msg_router_queue
               /\ LET ack == msg_router_queue'[Len(msg_router_queue')]
                  IN  /\ ack.type = "ack"
                      /\ ack.from = a
                      /\ ack.to = pending[a][1].from
               /\ conversations'[a] = conversations[a] ]_vars

\* C3 witness: an agent that holds a conversation has then taken a ping and
\* acknowledged it.
C3_Witness ==
    \E a \in DOMAIN pending :
        /\ Len(taken[a]) >= 2
        /\ taken[a][1].type = "chat"
        /\ taken[a][2].type = "ping"
        /\ Len(AcksSent(a)) = 1
        /\ DOMAIN conversations[a] # {}

\* a completion call of some task returns or raises
BackendStep ==
    \E a \in DOMAIN tasks : \E i \in DOMAIN tasks[a] :
        \E response \in Responses(Top(tasks[a][i])) : BackendRespond(a, i, response)

\* SpecCycle with a backend whose every call ends: the client's completion
\* call returns a response or raises.
SpecCycleFair == SpecCycle /\ WF_vars(BackendStep)

\* the frames of every task: turns 1..MAX_THINKING_TURNS, growing with the depth
C4_TurnBound ==
    \A a \in DOMAIN tasks : \A i \in DOMAIN tasks[a] :
        LET stk == tasks[a][i].stk
        IN  \A k \in DOMAIN stk :
                /\ stk[k].thinking_turn \in 1..MAX_THINKING_TURNS
                /\ k > 1 => stk[k - 1].thinking_turn < stk[k].thinking_turn

\* invoke_llm entered at turn MAX_THINKING_TURNS + 1 from any conversation of a
\* running agent: no completion call, the conversations as they were, no envelope
C4_GivesUp ==
    \A a \in DOMAIN conversations :
        \A id \in DOMAIN conversations[a] \cup {StrayUuid}, content \in Texts \cup {""} :
            LET st == invoke_llm(Run(a, <<>>), a, MAX_THINKING_TURNS + 1, id, content)
            IN  /\ st.stk = <<>>
                /\ st.convs = conversations[a]
                /\ st.out = <<>>
                /\ st.log = <<"Giving up">>

\* a task is waiting in a completion call
Thinking == \E a \in DOMAIN tasks : tasks[a] # <<>>

\* C4: the reasoning cycle started by a chat envelope terminates whatever the
\* backend answers (text, failures, capability requests, or a capability
\* request in every turn), and no completion call is made at a turn above
\* MAX_THINKING_TURNS: invoke_llm entered at turn MAX_THINKING_TURNS + 1 returns
\* without a completion call, without touching the conversation and without
\* an envelope; so the step that answers the call of turn MAX_THINKING_TURNS
\* with text (no capability requests of earlier turns remaining) adds that
\* text to the conversation, puts no envelope on the channel and ends the task.
C4_CycleTerminates ==
    /\ [](C4_TurnBound /\ C4_GivesUp)
    /\ [][ \A a \in DOMAIN tasks : \A i \in DOMAIN tasks[a] :
            \A response \in Responses(Top(tasks[a][i])) :
                (/\ response.kind = "message"
                 /\ response.tool_calls = <<>>
                 /\ Top(tasks[a][i]).thinking_turn = MAX_THINKING_TURNS
                 /\ \A k \in DOMAIN tasks[a][i].stk : tasks[a][i].stk[k].tool_calls = <<>>
                 /\ BackendRespond(a, i, response))
                => LET id == tasks[a][i].conversation_id
                   IN  /\ Len(tasks'[a]) = Len(tasks[a]) - 1
                       /\ conversations'[a][id] =
                            Append(conversations[a][id],
                                   Turn("assistant", response.content, None, None, <<>>))
                       /\ sent' = sent
                       /\ agent_log'[a] = Append(agent_log[a], "Giving up") ]_vars
    /\ Thinking ~> ~Thinking

\* C4 witness: a task that was answered with a capability request in every
\* turn has reached the last turn and given up.
C4_Witness ==
    \E a \in DOMAIN tasks :
        /\ budget.backend = "insistent"
        /\ tasks[a] = <<>>
        /\ agent_log[a] # <<>>
        /\ agent_log[a][Len(agent_log[a])] = "Giving up"

\* task i of agent a waits in the completion call of lines 113-119 and the
\* backend answers it with text and no capability requests
PlainReply(a, i, response) ==
    /\ Top(tasks[a][i]).pc = "llm_tools"
    /\ response.kind = "message"
    /\ response.tool_calls = <<>>
    /\ BackendRespond(a, i, response)

ChatsTaken(a) == OfType(taken[a], "chat")

\* the answers of agent a to conversation_history requests, given after a has
\* received exactly one chat envelope, from the peer that asks, and the backend
\* has answered it with the text "reply1"
HistoryAfterOneExchange(a) ==
    { h \in {sent[k] : k \in DOMAIN sent} :
        /\ h.from = a
        /\ h.transcript # <<>>
        /\ Len(ChatsTaken(a)) = 1
        /\ ChatsTaken(a)[1].from = h.to
        /\ \E k \in DOMAIN h.transcript :
            h.transcript[k] = Turn("assistant", "reply1", None, None, <<>>) }

\* the turn invoke_llm records for the chat envelope message
PeerTurn(message) ==
    Turn("user", ContentTemplate(message.from, message.content), None, None, <<>>)

SendingTools == {name \in tools : name \in {"send_message_to_user", "send_message_to_agent"}}

\* the envelope the capability request call of agent a asks for
Requested(a, call) ==
    IF call.name = "send_message_to_user"
    THEN send_message_to_user(a, call.arguments.content)
    ELSE send_message_to_agent(a, call.arguments.id, call.arguments.content)

\* C10 (as claimed): when the backend answers a submission of agent A with the
\* request of a declared message-sending capability (send_message_to_user,
\* send_message_to_agent), with destination D and text X, exactly one chat
\* envelope with from = A, to = D and content = X is put on the router's
\* inbound channel.
C10_SendEmitsEnvelope ==
    [][ \A a \in DOMAIN tasks : \A i \in DOMAIN tasks[a] :
            \A response \in Responses(Top(tasks[a][i])) :
                (/\ Len(response.tool_calls) = 1
                 /\ response.tool_calls[1].name \in SendingTools
                 /\ BackendRespond(a, i, response))
                => /\ sent' = Append(sent, Requested(a, response.tool_calls[1]))
                   /\ msg_router_queue' =
                        Append(msg_router_queue, Requested(a, response.tool_calls[1])) ]_vars

\* the text that reports capability function_name as unavailable (line 194)
Unavailable(function_name) ==
    "I tried to call a tool called " \o function_name \o ", but it was not available"

\* C11 (as claimed): when the backend requests a capability whose name is not
\* in the declared/available set (tooling.tools, tooling.available_functions),
\* the agent appends a turn stating that the capability is unavailable and
\* re-enters the cycle with turn = current + 1 and empty new content; the
\* cycle is not aborted.
C11_UnknownCapabilityReported ==
    [][ \A a \in DOMAIN tasks : \A i \in DOMAIN tasks[a] :
            \A response \in Responses(Top(tasks[a][i])) :
                (/\ Len(response.tool_calls) = 1
                 /\ response.tool_calls[1].name \notin tools
                 /\ response.tool_calls[1].name \notin DOMAIN available_functions
                 /\ response.tool_calls[1].arguments.json_ok
                 /\ BackendRespond(a, i, response))
                => LET id == tasks[a][i].conversation_id
                       c == conversations'[a][id]
                   IN  /\ c[Len(c)].content = Unavailable(response.tool_calls[1].name)
                       /\ Len(tasks'[a]) = Len(tasks[a])
                       /\ Top(tasks'[a][i]).thinking_turn =
                            Top(tasks[a][i]).thinking_turn + 1
                       /\ Top(tasks'[a][i]).content = "" ]_vars

\* a completion call of agent a has failed before
HasFailed(a) == \E k \in DOMAIN agent_log[a] : agent_log[a][k] = "Error"

\* the runtime of an agent whose completion call has failed is running, and
\* takes the next envelope of its mailbox when it has handled the last
C12_StillRuns ==
    \A a \in DOMAIN agent_log :
        HasFailed(a) =>
            /\ proc[a].state = "running"
            /\ (agent_queues[a] # <<>> /\ pending[a] = <<>>) => ENABLED AgentGet(a)

\* C12: a backend call that fails during the cycle for a chat from peer P does
\* not stop the agent's runtime and changes no conversation of the agent with
\* another peer (nor the mailbox, nor the envelope taken from it); afterwards
\* the agent still takes envelopes from its mailbox, answers a ping with an
\* ack and starts a cycle, at turn 1, for a chat.
C12_FailureContained ==
    /\ []C12_StillRuns
    /\ [][ \A a \in DOMAIN tasks : \A i \in DOMAIN tasks[a] :
            BackendRespond(a, i, Response("fail", None, <<>>))
            => /\ proc' = proc
               /\ pending' = pending
               /\ agent_queues' = agent_queues
               /\ DOMAIN conversations'[a] = DOMAIN conversations[a]
               /\ \A id \in DOMAIN conversations[a] \ {tasks[a][i].conversation_id} :
                    conversations'[a][id] = conversations[a][id]
               /\ \A j \in DOMAIN tasks[a] : j < i => tasks'[a][j] = tasks[a][j] ]_vars
    /\ [][ \A a \in DOMAIN pending :
            (/\ HasFailed(a)
             /\ pending[a] # <<>>
             /\ pending'[a] = <<>>)
            => /\ pending[a][1].type = "ping" =>
                    /\ Len(msg_router_queue') = Len(msg_router_queue) + 1
                    /\ msg_router_queue'[Len(msg_router_queue')].type = "ack"
                    /\ msg_router_queue'[Len(msg_router_queue')].to = pending[a][1].from
               /\ pending[a][1].type = "chat" =>
                    /\ Len(tasks'[a]) = Len(tasks[a]) + 1
                    /\ tasks'[a][Len(tasks'[a])].conversation_id = pending[a][1].from
                    /\ Top(tasks'[a][Len(tasks'[a])]).thinking_turn = 1
                    /\ Top(tasks'[a][Len(tasks'[a])]).pc = "llm_tools" ]_vars

\* C12 witness: the call for the chat of one peer has failed, the conversation
\* with that peer is as the chat left it, and the cycle for the chat of
\* another peer is in its first call.
C12_Witness ==
    \E a \in DOMAIN tasks :
        /\ agent_log[a] = <<"Error">>
        /\ Len(ChatsTaken(a)) = 2
        /\ ChatsTaken(a)[1].from # ChatsTaken(a)[2].from
        /\ Len(tasks[a]) = 1
        /\ tasks[a][1].conversation_id = ChatsTaken(a)[2].from
        /\ conversations[a][ChatsTaken(a)[1].from] =
            <<SystemTurn(a), PeerTurn(ChatsTaken(a)[1])>>

\* C13 (as claimed): when a backend call fails during the cycle for a chat
\* envelope from peer P, the agent puts a chat envelope addressed to P, with
\* the error as content, on the router's inbound channel.
C13_FailureReported ==
    [][ \A a \in DOMAIN tasks : \A i \in DOMAIN tasks[a] :
            BackendRespond(a, i, Response("fail", None, <<>>))
            => /\ Len(msg_router_queue') = Len(msg_router_queue) + 1
               /\ LET reply == msg_router_queue'[Len(msg_router_queue')]
                  IN  /\ reply.from = a
                      /\ reply.to = tasks[a][i].conversation_id
                      /\ reply.type = "chat" ]_vars

\* C14 (as claimed): shutdown(), called in any reachable state, returns
\* normally with every spawned runtime and the router terminated and every
\* agent mailbox removed (and called again it changes nothing).
C14_ShutdownStopsAll ==
    [][ (mgr.shutdown /\ mgr'.pc = "idle")
        => /\ mgr_ret'.status = "ok"
           /\ router_process' = "dead"
           /\ \A id \in DOMAIN proc' : proc'[id].state = "dead"
           /\ agent_processes' = <<>>
           /\ DOMAIN agent_queues' = {user_id} ]_vars

\* every conversation starts with the system turn of its agent and has no other
C15_SystemTurnFirst ==
    \A a \in DOMAIN conversations : \A id \in DOMAIN conversations[a] :
        LET c == conversations[a][id]
        IN  /\ c # <<>>
            /\ c[1] = SystemTurn(a)
            /\ \A k \in 2..Len(c) : c[k].role # "system"

\* C15: in every reachable state every conversation of an agent is non-empty,
\* its first turn is the system turn made of SYSTEM_PROMPT and the agent's
\* instructions, and no later turn is a system turn; and every step only
\* appends: the conversations of a running agent stay, each with the turns
\* it had, unchanged and in order, as a prefix of what it has afterwards.
C15_AppendOnly ==
    /\ []C15_SystemTurnFirst
    /\ [][ \A a \in DOMAIN conversations \cap DOMAIN conversations' :
            \A id \in DOMAIN conversations[a] :
                /\ id \in DOMAIN conversations'[a]
                /\ IsPrefix(conversations[a][id], conversations'[a][id]) ]_vars

\* C15 witness: a conversation that holds, after the system turn, a peer turn,
\* a capability request of the backend and its result.
C15_Witness ==
    \E a \in DOMAIN conversations : \E id \in DOMAIN conversations[a] :
        LET c == conversations[a][id]
        IN  /\ Len(c) >= 5
            /\ \E k \in DOMAIN c : c[k].role = "tool"
            /\ \E k \in DOMAIN c : c[k].role = "assistant" /\ c[k].tool_calls # <<>>

\* C16: the step in which an agent handles a conversation_history envelope
\* from R puts exactly one envelope on the router's inbound channel: a chat
\* envelope from the agent to R that carries the agent's conversation with R
\* as it is then; a conversation with R that did not exist is created with the
\* system turn alone and returned; no other conversation is created or changed,
\* and no cycle is started.
C16_HistoryReturned ==
    [][ \A a \in DOMAIN pending :
            (/\ pending[a] # <<>>
             /\ pending[a][1].type = "conversation_history"
             /\ a \in DOMAIN pending'
             /\ pending'[a] = <<>>)
            => LET R == pending[a][1].from
                   had == R \in DOMAIN conversations[a]
                   c == IF had THEN conversations[a][R] ELSE <<SystemTurn(a)>>
               IN  /\ msg_router_queue' =
                        Append(msg_router_queue, Envelope(a, R, "chat", None, c))
                   /\ sent' = Append(sent, Envelope(a, R, "chat", None, c))
                   /\ DOMAIN conversations'[a] = DOMAIN conversations[a] \cup {R}
                   /\ conversations'[a][R] = c
                   /\ \A id \in DOMAIN conversations[a] :
                        conversations'[a][id] = conversations[a][id]
                   /\ tasks' = tasks ]_vars

\* C16 witness: an agent has answered a history request with a conversation
\* that holds a peer turn and a reply.
C16_Witness ==
    \E k \in DOMAIN sent :
        /\ sent[k].from # user_id
        /\ sent[k].type = "chat"
        /\ Len(sent[k].transcript) >= 3
        /\ sent[k].transcript[3].role = "assistant"

\* C17 (as claimed): when the router has routed an envelope addressed to the
\* human user, by the reserved token "user" or by the user's own identifier,
\* the envelope is in the user mailbox that monitor_user_queue drains
\* (agent_queues[user_id]), and no other mailbox has changed.
C17_UserDelivered ==
    [][ (/\ router_task # <<>>
         /\ router_task' = <<>>
         /\ router_process' = "alive"
         /\ router_task[1].message.to \in {"user", user_id})
        => agent_queues' =
              [agent_queues EXCEPT ![user_id] = Append(@, router_task[1].message)] ]_vars

\* the identifiers registered as agents
RegisteredAgents == {id \in DOMAIN registry : registry[id].type = "agent"}

\* C18: in every reachable state, the intermediate states of spawn_agent,
\* kill_agent and shutdown included, every identifier with an agent entry in
\* the registry has a running process and a mailbox in agent_queues.
C18_EntryBacked ==
    \A id \in RegisteredAgents :
        /\ id \in DOMAIN proc
        /\ proc[id].state = "running"
        /\ IsAlive(id)
        /\ id \in DOMAIN agent_queues

\* C18 witness: kill_agent has removed the entry of one agent and is about to
\* terminate its process, while another agent is registered.
C18_Witness ==
    /\ mgr.pc = "kill_process"
    /\ mgr.id \in ProcessIds
    /\ RegisteredAgents # {}

\* the turns of conversation c that carry the result of a capability
ToolTurns(c) == SelectSeq(c, LAMBDA turn : turn.role = "tool")

\* every request of the list is for a capability the dispatch of lines 145-164
\* runs and that does not end the task
NonTerminal(calls) ==
    \A k \in DOMAIN calls :
        calls[k].name = "get_current_weather" /\ calls[k].arguments.json_ok

\* C19 (as claimed): when one backend response requests several non-terminal
\* capabilities, the agent executes all of them, in the order returned, before
\* it calls the backend again: when the task next waits for the backend, the
\* conversation holds the result of every request of the response, in order.
C19_AllBeforeReentry ==
    [][ \A a \in DOMAIN tasks : \A i \in DOMAIN tasks[a] :
            \A response \in Responses(Top(tasks[a][i])) :
                (/\ Len(response.tool_calls) >= 2
                 /\ NonTerminal(response.tool_calls)
                 /\ BackendRespond(a, i, response))
                => LET id == tasks[a][i].conversation_id
                       before == ToolTurns(conversations[a][id])
                       after == ToolTurns(conversations'[a][id])
                   IN  /\ Len(after) = Len(before) + Len(response.tool_calls)
                       /\ \A k \in DOMAIN response.tool_calls :
                            after[Len(before) + k].tool_call_id = response.tool_calls[k].id ]_vars

UserTurns(c) == SelectSeq(c, LAMBDA turn : turn.role = "user")

\* the chat envelopes of peer P that agent a has taken and begun to handle
ChatsHandledFrom(a, P) ==
    LET chats == SelectSeq(ChatsTaken(a), LAMBDA m : m.from = P)
    IN  IF pending[a] # <<>> /\ pending[a][1].type = "chat" /\ pending[a][1].from = P
        THEN SubSeq(chats, 1, Len(chats) - 1)
        ELSE chats

\* C21 (as claimed): one inbound chat envelope with non-empty content adds
\* exactly one peer turn to the conversation with its sender over the whole
\* cycle, whatever the backend answers, and re-entries of the cycle add none:
\* in every state each conversation of a running agent holds as many peer
\* turns as chat envelopes of that peer the agent has begun to handle.
C21_OnePeerTurn ==
    \A a \in DOMAIN conversations : \A P \in DOMAIN conversations[a] :
        Len(UserTurns(conversations[a][P])) = Len(ChatsHandledFrom(a, P))

\* C22 (as claimed): a backend call that fails, at any turn of the cycle for a
\* chat message, aborts the whole cycle of that message: the task is over (no
\* completion call is pending or made for it any more) and no capability is
\* executed on its behalf (no capability result is added to the conversation).
C22_FailureAborts ==
    [][ \A a \in DOMAIN tasks : \A i \in DOMAIN tasks[a] :
            BackendRespond(a, i, Response("fail", None, <<>>))
            => LET id == tasks[a][i].conversation_id
               IN  /\ tasks'[a] = RemoveAt(tasks[a], i)
                   /\ ToolTurns(conversations'[a][id]) = ToolTurns(conversations[a][id]) ]_vars

\* agent a handles, in this step, an envelope of peer P: handle_message runs up
\* to its first wait for an envelope from P, or a task of a cycle for P resumes
Handles(a, P) ==
    \/ /\ a \in DOMAIN pending
       /\ pending[a] # <<>>
       /\ pending[a][1].from = P
       /\ pending'[a] = <<>>
    \/ \E i \in DOMAIN tasks[a] :
        /\ tasks[a][i].conversation_id = P
        /\ \E response \in Responses(Top(tasks[a][i])) : BackendRespond(a, i, response)

\* C23: every step that creates or changes the conversation of agent A with
\* peer P is a step in which A handles an envelope of P (its handle_message
\* runs, or its cycle for P resumes), and in that step A's conversations
\* with every other peer and all conversations of every other agent stay as
\* they are, also while cycles for other peers are in progress in A.
C23_OnlyOwnConversation ==
    [][ \A a \in DOMAIN conversations \cap DOMAIN conversations' :
            \A P \in DOMAIN conversations'[a] :
                (P \notin DOMAIN conversations[a] \/ conversations'[a][P] # conversations[a][P])
                => /\ Handles(a, P)
                   /\ \A Q \in DOMAIN conversations[a] \ {P} :
                        /\ Q \in DOMAIN conversations'[a]
                        /\ conversations'[a][Q] = conversations[a][Q]
                   /\ \A b \in DOMAIN conversations \ {a} :
                        /\ b \in DOMAIN conversations'
                        /\ conversations'[b] = conversations[b] ]_vars

\* C23 witness: two cycles are in progress in one agent, for two peers; the
\* conversation with the first has grown by the backend's reply while the
\* conversation with the second is as its chat envelope left it.
C23_Witness ==
    \E a \in DOMAIN tasks :
        /\ Len(tasks[a]) = 2
        /\ tasks[a][1].conversation_id # tasks[a][2].conversation_id
        /\ Len(conversations[a][tasks[a][1].conversation_id]) = 3
        /\ Len(conversations[a][tasks[a][2].conversation_id]) = 2

\* C24 (as claimed): cycles for the same peer are serialized: an agent never
\* has two cycles in progress for chat envelopes of the same peer, so the
\* cycle of the second envelope starts (and adds its peer turn, and submits
\* the conversation) only when the cycle of the first is over, and the turns
\* of the first precede every turn of the second.
C24_SamePeerSerialized ==
    \A a \in DOMAIN tasks : \A i, j \in DOMAIN tasks[a] :
        i # j => tasks[a][i].conversation_id # tasks[a][j].conversation_id

\* C25 (as claimed): kill_agent(id), for an identifier that spawn_agent has
\* returned and whose runtime has not been killed, issued at any later moment
\* (also before the runtime has written its registry entry), does not raise:
\* it goes on to terminate the process and to remove the mailbox.
C25_KillAfterSpawn ==
    [][ \A id \in ProcessIds : KillAgent(id) => mgr'.pc = "kill_process" /\ mgr'.id = id ]_vars

\* C26 (as claimed): in every reachable state the registry holds the entry of
\* the human user written by WorldManager.__init__, and agent_queues holds
\* the user's mailbox.
C26_UserKept ==
    /\ user_id \in DOMAIN registry
    /\ registry[user_id].type = "human"
    /\ user_id \in DOMAIN agent_queues

\* the names the dispatch of lines 145-164 executes
Dispatched == {"get_current_weather", "get_entities", "send_message"}

\* C27 (as claimed): every capability-result (tool) turn of a conversation
\* carries the name of a capability that was executed for its request and the
\* result of that execution; a request whose capability is not executed gets
\* no capability-result turn, and none with the result of an earlier request.
C27_ResultOfOwnRequest ==
    \A a \in DOMAIN conversations : \A id \in DOMAIN conversations[a] :
        LET c == conversations[a][id]
        IN  \A k \in DOMAIN c :
                c[k].role = "tool" =>
                    /\ c[k].name \in Dispatched
                    /\ c[k].name = "get_current_weather" =>
                            \E unit \in {"fahrenheit", "celsius"} :
                                c[k].content = get_current_weather("Paris", unit)

\* where the agent identifier id is in its life: 0 not allocated, 1 spawning
\* (allocated, not yet registered), 2 ready (registered), 3 killed (kill_agent
\* has removed its entry)
Phase(id) ==
    IF id \in killed \/ (mgr.pc \in {"kill_process", "kill_queue"} /\ mgr.id = id) THEN 3
    ELSE IF id \in DOMAIN registry THEN 2
    ELSE IF id \in Allocated THEN 1
    ELSE 0

\* C28: once kill_agent(id) has returned normally for an agent, the registry
\* holds no entry for id in any later state: the terminated process is dead and
\* does not register again, and a later spawn_agent draws a fresh identifier;
\* the life of every agent identifier only moves forward, from spawning to
\* ready to killed.
C28_KilledNeverBack ==
    /\ [](\A id \in killed :
            /\ id \notin DOMAIN registry
            /\ id \in DOMAIN proc => proc[id].state = "dead")
    /\ [][ /\ \A id \in AllUuids \ {user_id} : Phase(id) <= Phase(id)'
           /\ \A id \in killed : id \in killed' /\ id \notin DOMAIN registry'
           /\ uuid_count' # uuid_count =>
                /\ Uuid(uuid_count') \notin Allocated \cup killed
                /\ Uuid(uuid_count') \notin DOMAIN registry ]_vars

\* C28 witness: after the kill of one agent has returned, another agent has
\* been spawned and has registered itself.
C28_Witness ==
    \E id \in killed \ {user_id} : \E other \in RegisteredAgents :
        /\ id \in DOMAIN proc
        /\ other # id
        /\ mgr_ret = Ret("ok", other)
        /\ proc[other].state = "running"

====
